---- MODULE Spec2Model ----
(***************************************************************************)
(* SignManager (sign_manager.py): one asyncio event loop on a background   *)
(* thread ("SignLoop") owns the BLE Client session and a queue of Jobs;    *)
(* synchronous callers (FastAPI worker threads) hand coroutines to the     *)
(* loop with run_coroutine_threadsafe and block on the returned future.    *)
(*                                                                         *)
(* The loop is modelled at the granularity of asyncio's ready queue: one   *)
(* step of the model runs one ready handle (one callback, or one task      *)
(* step up to its next suspension point).                                  *)
(***************************************************************************)
EXTENDS Integers, Sequences, FiniteSets, TLC

\* ---------------------------------------------------------------- bounds
\* Number of play_jt calls that pass validation (each creates one Job).
MaxJobs == 2

\* Number of tweak_sign.py runs (run_cmd calls) of each HTTP server.
MaxCmds == 3

\* Caller threads (FastAPI runs the sync endpoints on a thread pool).
Callers == {"t1", "t2"}

JobIds == 1..MaxJobs

\* ------------------------------------------------- names, paths, payloads
\* A name is a sequence of tokens; " " is a whitespace token.
Names == { <<>>, <<" ">>, <<"heart">>, <<" ", "heart", " ">>, <<"ghost">> }

IsSpace(tok) == tok = " "

RECURSIVE LStrip(_)
LStrip(s) == IF s # <<>> /\ IsSpace(Head(s)) THEN LStrip(Tail(s)) ELSE s

RECURSIVE RStrip(_)
RStrip(s) ==
    IF s # <<>> /\ IsSpace(s[Len(s)]) THEN RStrip(SubSeq(s, 1, Len(s) - 1)) ELSE s

\* str.strip()
Strip(s) == RStrip(LStrip(s))

\* (self.anim_dir / f"{name}.jt").resolve()
JtPath(name) == <<"anim_dir">> \o name \o <<".jt">>

\* The .jt files present in anim_dir.
Files == { JtPath(<<"heart">>), JtPath(<<"blank">>) }

IsFile(p) == p \in Files

NoPath == <<>>

\* ------------------------------------------------------------ exceptions
NoExc == [cls |-> "none", msg |-> ""]

\* Raised into a task by Task.cancel(); a BaseException, not an Exception.
CancelledError == [cls |-> "CancelledError", msg |-> ""]

\* Future.set_result on a future that is already done.
InvalidStateError == [cls |-> "InvalidStateError", msg |-> "invalid state"]

\* What the transport (Client.__aenter__, Client.send_command) can raise:
\* the two connection-class faults the supervisor names, and any other one.
\* msg is str(e): an exception raised without arguments has str(e) = "".
Faults ==
    { [cls |-> "TimeoutError", msg |-> ""],
      [cls |-> "BleakError", msg |-> "disconnected"],
      [cls |-> "RuntimeError", msg |-> "boom"] }

\* isinstance(e, Exception)
IsException(e) == e.cls \notin {"none", "CancelledError"}

\* str(e)
Str(e) == e.msg

\* --------------------------------------------------------------- futures
FutNone == [st |-> "none", ok |-> FALSE, jt_path |-> NoPath, error |-> ""]
FutPending == [st |-> "pending", ok |-> FALSE, jt_path |-> NoPath, error |-> ""]
FutCancelled == [st |-> "cancelled", ok |-> FALSE, jt_path |-> NoPath, error |-> ""]

\* {"ok": True, "kind": "jt", "jt_path": str(job.jt_path)}
OkResult(p) == [st |-> "result", ok |-> TRUE, jt_path |-> p, error |-> ""]

\* {"ok": False, "kind": "jt", "jt_path": str(job.jt_path), "error": str(e)}
FailResult(p, e) == [st |-> "result", ok |-> FALSE, jt_path |-> p, error |-> Str(e)]

\* Future.done()
Done(f) == f.st \in {"result", "cancelled"}

IsResult(f) == f.st = "result"

\* ---------------------------------------------------------- awaited I/O
IoNone == [st |-> "none", e |-> NoExc]
IoPending == [st |-> "pending", e |-> NoExc]
IoOk == [st |-> "ok", e |-> NoExc]
IoCancelled == [st |-> "cancelled", e |-> NoExc]
IoRaised(e) == [st |-> "raised", e |-> e]

\* ---------------------------------------------------------------- handles
\* Entries of the loop's ready queue.
H(kind, c) == [h |-> kind, c |-> c]
HRunWorker == H("run_worker", "-")
HWorker == H("worker", "-")
HStop == H("stop", "-")
HRunCoro(c) == H("run_coro", c)
HSubmit(c) == H("submit", c)
HChain(c) == H("chain", c)

\* ------------------------------------------------------ the HTTP servers
\* sign_api.py (FastAPI) and sign_jt_server.py (Flask): each keeps its own
\* global LAST_JT and runs tweak_sign.py in a subprocess for every command.
Servers == {"sign_api", "sign_jt_server"}

\* An HTTP response: status code and the error text (detail / "error").
Response(srv, status, detail) == [srv |-> srv, status |-> status, detail |-> detail]

NoResponse == Response("-", 0, "")

VARIABLES
    loop,        \* "new" | "running" | "stopped" | "closed"
    ready,       \* the loop's ready queue of handles
    batch,       \* handles left in the current iteration of the loop
    stop_set,    \* self._stop
    connected,   \* self._connected
    job_queue,   \* self._job_queue : sequence of job ids
    njobs,       \* jobs created so far
    jt_path,     \* job id -> Job.jt_path
    future,      \* job id -> Job.future
    wpc,         \* where _run_client_forever is suspended
    wio,         \* state of the future the worker task awaits
    wjob,        \* job held by _process_job (0: none)
    wexc,        \* exception propagating through the Client context
    wcancel,     \* worker task's _must_cancel
    sessions,    \* transport sessions opened and not yet torn down
    spc,         \* caller -> state of its _submit_job task
    scancel,     \* caller -> its task's _must_cancel
    sjob,        \* caller -> the job its task created (0: none)
    cpc,         \* caller -> "idle" | "blocked"
    cpath,       \* caller -> jt_path of the call in progress
    cfut,        \* caller -> concurrent future returned by run_coroutine_threadsafe
    ret,         \* the most recent outcome play_jt gave a caller
    ncalls,      \* play_jt calls that passed validation
    last_jt,     \* self.last_jt
    stopcall,    \* "none" | "joining" | "returned"
    sent,        \* history: job ids handed to client.send_command, in order
    late,        \* history: callers whose pending call began after stop() returned
    LAST_JT,     \* HTTP server -> its global LAST_JT (NoPath: None)
    disk,        \* the .jt files in ANIM_DIR at this moment
    resp,        \* the most recent HTTP response of the servers
    ncmds,       \* history: HTTP server -> run_cmd calls it made
    nok          \* history: HTTP server -> run_cmd calls that ended with code 0

loopvars == <<loop, ready, batch, stop_set>>
workervars == <<connected, wpc, wio, wjob, wexc, wcancel, sessions>>
jobvars == <<job_queue, njobs, jt_path, future, sent>>
taskvars == <<spc, scancel, sjob>>
callervars == <<cpc, cpath, cfut, ret, ncalls, last_jt>>
managervars == <<loopvars, workervars, jobvars, taskvars, callervars, stopcall, late>>
apivars == <<LAST_JT, disk, resp, ncmds, nok>>
vars == <<managervars, apivars>>

\* What a play_jt call gave its caller: a returned Result or a raised fault.
RetNone == [t |-> "none", fault |-> "", val |-> FutNone]
Returned(f) == [t |-> "returned", fault |-> "", val |-> f]
Raised(x) == [t |-> "raised", fault |-> x, val |-> FutNone]

\* SignManager.__init__
Init ==
    /\ loop = "new"
    /\ ready = <<>>
    /\ batch = 0
    /\ stop_set = FALSE
    /\ connected = FALSE
    /\ job_queue = <<>>
    /\ njobs = 0
    /\ jt_path = [j \in JobIds |-> NoPath]
    /\ future = [j \in JobIds |-> FutNone]
    /\ wpc = "none"
    /\ wio = IoNone
    /\ wjob = 0
    /\ wexc = NoExc
    /\ wcancel = FALSE
    /\ sessions = 0
    /\ spc = [c \in Callers |-> "idle"]
    /\ scancel = [c \in Callers |-> FALSE]
    /\ sjob = [c \in Callers |-> 0]
    /\ cpc = [c \in Callers |-> "idle"]
    /\ cpath = [c \in Callers |-> NoPath]
    /\ cfut = [c \in Callers |-> FutNone]
    /\ ret = RetNone
    /\ ncalls = 0
    /\ last_jt = NoPath
    /\ stopcall = "none"
    /\ sent = <<>>
    /\ late = {}
    /\ LAST_JT = [srv \in Servers |-> NoPath]
    /\ disk = Files
    /\ resp = NoResponse
    /\ ncmds = [srv \in Servers |-> 0]
    /\ nok = [srv \in Servers |-> 0]

\* ------------------------------------------------------- _run_loop
\* One handle leaves the ready queue. BaseEventLoop._run_once runs the
\* handles that were ready when the iteration began; run_forever leaves
\* after the iteration in which loop.stop() was called.
LoopAdvance(stopping) ==
    LET n == IF batch = 0 THEN Len(ready) ELSE batch
    IN  /\ batch' = n - 1
        /\ loop' = IF n - 1 = 0 /\ stopping THEN "stopped" ELSE "running"

Runs(handle) ==
    /\ loop = "running"
    /\ ready # <<>>
    /\ Head(ready) = handle

\* self._loop.close() once run_forever has returned; the thread ends.
LoopClose ==
    /\ loop = "stopped"
    /\ loop' = "closed"
    /\ UNCHANGED <<ready, batch, stop_set, workervars, jobvars, taskvars,
                   callervars, stopcall>>
    /\ UNCHANGED <<apivars, late>>

\* ------------------------------------------------------- lifecycle
\* start(): thread.start(), then run_coroutine_threadsafe(_run_client_forever)
Start ==
    /\ loop = "new"
    /\ loop' = "running"
    /\ ready' = Append(ready, HRunWorker)
    /\ UNCHANGED <<batch, stop_set, workervars, jobvars, taskvars, callervars,
                   stopcall>>
    /\ UNCHANGED <<apivars, late>>

\* stop(): call_soon_threadsafe(_stop), then join(timeout=5)
Stop ==
    /\ stopcall = "none"
    /\ loop = "running"
    /\ ready' = Append(ready, HStop)
    /\ stopcall' = "joining"
    /\ UNCHANGED <<loop, batch, stop_set, workervars, jobvars, taskvars,
                   callervars>>
    /\ UNCHANGED <<apivars, late>>

\* join returns: the thread has ended, or the 5 s have passed.
StopReturn ==
    /\ stopcall = "joining"
    /\ stopcall' = "returned"
    /\ UNCHANGED <<loopvars, workervars, jobvars, taskvars, callervars>>
    /\ UNCHANGED <<apivars, late>>

\* ------------------------------------------------------- play_jt
\* Variant: only the name is validated, not the existence of the file.
ValidateNameOnly(name) == IF Strip(name) = <<>> THEN "ValueError" ELSE ""

\* The fault play_jt raises before it creates anything, "" if none.
Validate(name) ==
    IF Strip(name) = <<>> THEN "ValueError"
    ELSE IF ~IsFile(JtPath(Strip(name))) THEN "FileNotFoundError"
    ELSE ""

\* play_jt up to fut.result(): validation, then the coroutine is handed to
\* the loop (call_soon_threadsafe raises RuntimeError on a closed loop).
PlayJt(c, name) ==
    /\ cpc[c] = "idle"
    /\ IF Validate(name) # ""
       THEN /\ ret' = Raised(Validate(name))
            /\ UNCHANGED <<ready, cpc, cpath, cfut, ncalls>>
       ELSE /\ ncalls < MaxJobs
            /\ ncalls' = ncalls + 1
            /\ IF loop = "closed"
               THEN /\ ret' = Raised("RuntimeError")
                    /\ UNCHANGED <<ready, cpc, cpath, cfut>>
               ELSE /\ ready' = Append(ready, HRunCoro(c))
                    /\ cpc' = [cpc EXCEPT ![c] = "blocked"]
                    /\ cpath' = [cpath EXCEPT ![c] = JtPath(Strip(name))]
                    /\ cfut' = [cfut EXCEPT ![c] = FutPending]
                    /\ UNCHANGED ret
    /\ late' = IF Validate(name) = "" /\ loop # "closed" /\ stopcall = "returned"
               THEN late \cup {c} ELSE late
    /\ UNCHANGED <<loop, batch, stop_set, workervars, jobvars, taskvars,
                   last_jt, stopcall>>
    /\ UNCHANGED apivars

\* fut.result() returns or raises; on ok the caller records last_jt.
PlayJtReturn(c) ==
    /\ cpc[c] = "blocked"
    /\ Done(cfut[c])
    /\ cpc' = [cpc EXCEPT ![c] = "idle"]
    /\ ret' = IF IsResult(cfut[c]) THEN Returned(cfut[c])
              ELSE Raised("CancelledError")
    /\ last_jt' = IF IsResult(cfut[c]) /\ cfut[c].ok THEN cpath[c] ELSE last_jt
    /\ cpath' = [cpath EXCEPT ![c] = NoPath]
    /\ cfut' = [cfut EXCEPT ![c] = FutNone]
    /\ late' = late \ {c}
    /\ UNCHANGED <<loopvars, workervars, jobvars, taskvars, ncalls, stopcall>>
    /\ UNCHANGED apivars

\* Variant: off() plays a payload that is not the blank frame.
OffOtherName(c) == PlayJt(c, <<"off">>)

\* off(blank_name="blank"): return self.play_jt(blank_name)
Off(c) == PlayJt(c, <<"blank">>)

\* ------------------------------------------------------- the worker task
\* Variant: the newest job leaves the queue first (a LIFO queue).
QueueGetLifo(q) == [job |-> q[Len(q)], rest |-> SubSeq(q, 1, Len(q) - 1)]

\* Variant: the oldest job is read but stays queued.
QueueGetPeek(q) == [job |-> Head(q), rest |-> q]

\* asyncio.Queue.get_nowait: the oldest job leaves the queue.
QueueGet(q) == [job |-> Head(q), rest |-> Tail(q)]

\* Variant: pending jobs are rejected when the connection fails.
QueueAfterErrorReject(q) == <<>>

\* The queue after a connection error has been handled: "here we just
\* reconnect and leave jobs queued".
QueueAfterError(q) == q

\* Variant: the except clause only re-raises, the future is left as it is.
ProcessJobNoResolve(f, p, out) ==
    IF out.st = "ok" /\ ~Done(f) THEN [fut |-> OkResult(p), exc |-> NoExc]
    ELSE [fut |-> f, exc |-> IF out.st = "ok" THEN InvalidStateError ELSE out.e]

\* Variant: the except clause catches BaseException and sets the failed
\* result without asking job.future.done().
ProcessJobCatchAll(f, p, out) ==
    IF out.st = "ok" /\ ~Done(f) THEN [fut |-> OkResult(p), exc |-> NoExc]
    ELSE [fut |-> FailResult(p, IF out.st = "ok" THEN InvalidStateError ELSE out.e),
          exc |-> IF out.st = "ok" THEN InvalidStateError ELSE out.e]

\* Variant: the except clause cancels the job's future instead of
\* resolving it with a failed Result.
ProcessJobCancel(f, p, out) ==
    IF out.st = "ok" /\ ~Done(f) THEN [fut |-> OkResult(p), exc |-> NoExc]
    ELSE [fut |-> IF IsException(out.e) /\ ~Done(f) THEN FutCancelled ELSE f,
          exc |-> IF out.st = "ok" THEN InvalidStateError ELSE out.e]

\* _process_job from the return of send_command on: out is what the await
\* produced for a job whose future is f. Yields the future afterwards and
\* the exception that leaves _process_job (NoExc when it returns).
ProcessJob(f, p, out) ==
    IF out.st = "ok"
    THEN IF ~Done(f)
         THEN [fut |-> OkResult(p), exc |-> NoExc]
         ELSE [fut |-> f, exc |-> InvalidStateError]
    ELSE IF IsException(out.e)
         THEN [fut |-> IF ~Done(f) THEN FailResult(p, out.e) ELSE f, exc |-> out.e]
         ELSE [fut |-> f, exc |-> out.e]

\* The worker's own state, as the coroutine sees it during one step.
WorkerState ==
    [pc |-> wpc, job |-> wjob, exc |-> wexc, conn |-> connected,
     q |-> job_queue, fut |-> future, sent |-> sent, wake |-> 0]

\* job = await self._job_queue.get() has a job: _process_job starts and
\* suspends in client.send_command.
TakeJob(s) ==
    [s EXCEPT !.pc = "send", !.job = QueueGet(s.q).job, !.q = QueueGet(s.q).rest,
              !.sent = Append(s.sent, QueueGet(s.q).job)]

\* Variant: the block is left without Client.__aexit__ (a Client used
\* without `async with`): the session is not torn down.
LeaveContextNoExit(s, e) ==
    [s EXCEPT !.pc = IF stop_set THEN "done" ELSE "sleep", !.conn = FALSE,
              !.exc = NoExc, !.job = 0]

\* The finally clause, then Client.__aexit__ is awaited with e in flight.
LeaveContext(s, e) ==
    [s EXCEPT !.pc = "aexit", !.conn = FALSE, !.exc = e, !.job = 0]

\* while not self._stop.is_set(): job = await self._job_queue.get(); ...
InnerLoop(s) ==
    IF stop_set THEN LeaveContext(s, NoExc)
    ELSE IF s.q = <<>> THEN [s EXCEPT !.pc = "get", !.job = 0]
    ELSE TakeJob(s)

\* Variant: the supervisor connects again at once, without the backoff.
AfterContextNoBackoff(s, e) ==
    [s EXCEPT !.pc = IF stop_set THEN "done" ELSE "aenter",
              !.conn = IF e = NoExc THEN @ ELSE FALSE,
              !.q = IF e = NoExc THEN @ ELSE QueueAfterError(@),
              !.exc = NoExc, !.job = 0]

\* The except clauses and the backoff: e left the async with block (NoExc:
\* the block ended normally).
AfterContext(s, e) ==
    [s EXCEPT !.pc = IF stop_set THEN "done" ELSE "sleep",
              !.conn = IF e = NoExc THEN @ ELSE FALSE,
              !.q = IF e = NoExc THEN @ ELSE QueueAfterError(@),
              !.exc = NoExc, !.job = 0]

\* Variant: the supervisor takes a queued job before it opens a session.
OuterLoopDispatch(s) ==
    IF stop_set THEN [s EXCEPT !.pc = "done"]
    ELSE IF s.q # <<>> THEN TakeJob(s)
    ELSE [s EXCEPT !.pc = "aenter"]

\* Variant: the supervisor gives up instead of connecting again.
OuterLoopOnce(s) == [s EXCEPT !.pc = IF stop_set \/ s.pc = "sleep" THEN "done" ELSE "aenter"]

\* while not self._stop.is_set(): async with Client(...)
OuterLoop(s) == [s EXCEPT !.pc = IF stop_set THEN "done" ELSE "aenter"]

\* Variant: a failed send leaves _process_job before the future is touched.
AfterSendRaiseFirst(s, out) ==
    IF out.st = "raised" THEN LeaveContext(s, out.e)
    ELSE InnerLoop([s EXCEPT !.fut[s.job] = OkResult(jt_path[s.job]), !.wake = s.job])

\* _process_job resumes with `out`, then the supervisor goes on.
AfterSend(s, out) ==
    LET r == ProcessJob(s.fut[s.job], jt_path[s.job], out)
        s1 == [s EXCEPT !.fut[s.job] = r.fut,
                        !.wake = IF r.fut # s.fut[s.job] THEN s.job ELSE 0]
    IN  IF r.exc = NoExc THEN InnerLoop(s1) ELSE LeaveContext(s1, r.exc)

\* One step of the worker task: the await it is suspended in produces
\* `out`, and the coroutine runs to its next suspension point or its end.
WorkerResume(s, out) ==
    CASE s.pc = "start" ->
            IF out.st = "raised" THEN [s EXCEPT !.pc = "cancelled"] ELSE OuterLoop(s)
      [] s.pc = "aenter" ->
            IF out.st = "raised" THEN AfterContext(s, out.e)
            ELSE InnerLoop([s EXCEPT !.conn = TRUE])
      [] s.pc = "get" ->
            IF out.st = "raised" THEN LeaveContext(s, out.e)
            ELSE IF s.q = <<>> THEN s ELSE TakeJob(s)
      [] s.pc = "send" -> AfterSend(s, out)
      [] s.pc = "aexit" ->
            AfterContext(s, IF out.st = "raised" THEN out.e ELSE s.exc)
      [] s.pc = "sleep" ->
            IF out.st = "raised" THEN [s EXCEPT !.pc = "cancelled"] ELSE OuterLoop(s)

Awaiting(pc) == pc \in {"aenter", "get", "send", "aexit", "sleep"}

\* The handle that resumes the task of the caller waiting for job j.
WakeOf(j) ==
    IF j = 0 THEN <<>>
    ELSE LET c == CHOOSE c \in Callers : spc[c] = "await" /\ sjob[c] = j
         IN  <<HSubmit(c)>>

\* run_coroutine_threadsafe(self._run_client_forever(), loop): the task is
\* created and its first step scheduled.
RunWorkerCoro ==
    /\ Runs(HRunWorker)
    /\ wpc' = "start"
    /\ ready' = Append(Tail(ready), HWorker)
    /\ LoopAdvance(stop_set)
    /\ UNCHANGED <<stop_set, connected, wio, wjob, wexc, wcancel, sessions,
                   jobvars, taskvars, callervars, stopcall>>
    /\ UNCHANGED <<apivars, late>>

\* Task.__step of the worker: a pending cancellation is thrown into the
\* coroutine as CancelledError at the await it is suspended in.
WorkerStep ==
    /\ Runs(HWorker)
    /\ LET out == IF wcancel \/ wio = IoCancelled THEN IoRaised(CancelledError)
                  ELSE wio
           s == WorkerResume(WorkerState, out)
       IN  /\ wpc' = s.pc
           /\ wjob' = s.job
           /\ wexc' = s.exc
           /\ connected' = s.conn
           /\ job_queue' = s.q
           /\ future' = s.fut
           /\ sent' = s.sent
           /\ wio' = IF Awaiting(s.pc) THEN IoPending ELSE IoNone
           /\ ready' = Tail(ready) \o WakeOf(s.wake)
    /\ wcancel' = FALSE
    /\ LoopAdvance(stop_set)
    /\ UNCHANGED <<stop_set, sessions, njobs, jt_path, taskvars, callervars,
                   stopcall>>
    /\ UNCHANGED <<apivars, late>>

\* ------------------------------------------------------- the transport
\* What the worker awaits completes: its future is set and the task's
\* wakeup is scheduled.
Completes(pc, out) ==
    /\ loop = "running"
    /\ wpc = pc
    /\ wio = IoPending
    /\ wio' = out
    /\ ready' = Append(ready, HWorker)
    /\ UNCHANGED <<loop, batch, stop_set, connected, wpc, wjob, wexc, wcancel,
                   jobvars, taskvars, callervars, stopcall>>
    /\ UNCHANGED <<apivars, late>>

\* Client.__aenter__ connects.
ConnectOk == Completes("aenter", IoOk) /\ sessions' = sessions + 1

\* Client.__aenter__ raises.
ConnectFail(e) == Completes("aenter", IoRaised(e)) /\ UNCHANGED sessions

\* client.send_command returns.
SendOk == Completes("send", IoOk) /\ UNCHANGED sessions

\* client.send_command (or SetJT) raises.
SendFail(e) == Completes("send", IoRaised(e)) /\ UNCHANGED sessions

\* Client.__aexit__ has disconnected.
AexitDone == Completes("aexit", IoOk) /\ sessions' = sessions - 1

\* asyncio.sleep(self._reconnect_delay) is over.
TimerFire == Completes("sleep", IoOk) /\ UNCHANGED sessions

\* ------------------------------------------------------- _submit_job tasks
\* The callback of run_coroutine_threadsafe: ensure_future(coro) creates
\* the task and schedules its first step.
RunCoro(c) ==
    /\ Runs(HRunCoro(c))
    /\ spc' = [spc EXCEPT ![c] = "task"]
    /\ ready' = Append(Tail(ready), HSubmit(c))
    /\ LoopAdvance(stop_set)
    /\ UNCHANGED <<stop_set, workervars, jobvars, scancel, sjob, callervars,
                   stopcall>>
    /\ UNCHANGED <<apivars, late>>

\* First step of _submit_job: the Job is created and put on the queue (the
\* queue is unbounded, put does not suspend; a waiting getter is woken),
\* then the task suspends in `await job_future`.
SubmitEnqueue(c) ==
    /\ Runs(HSubmit(c))
    /\ spc[c] = "task"
    /\ ~scancel[c]
    /\ njobs' = njobs + 1
    /\ jt_path' = [jt_path EXCEPT ![njobs + 1] = cpath[c]]
    /\ future' = [future EXCEPT ![njobs + 1] = FutPending]
    /\ job_queue' = Append(job_queue, njobs + 1)
    /\ sjob' = [sjob EXCEPT ![c] = njobs + 1]
    /\ spc' = [spc EXCEPT ![c] = "await"]
    /\ IF wpc = "get" /\ wio = IoPending
       THEN /\ wio' = IoOk
            /\ ready' = Append(Tail(ready), HWorker)
       ELSE /\ wio' = wio
            /\ ready' = Tail(ready)
    /\ LoopAdvance(stop_set)
    /\ UNCHANGED <<stop_set, connected, wpc, wjob, wexc, wcancel, sessions,
                   sent, scancel, callervars, stopcall>>
    /\ UNCHANGED <<apivars, late>>

\* The task ends: `return await job_future` yields the job's result, or
\* CancelledError was thrown into it (before its first step, or at the
\* await). Its done-callback, which copies the outcome to the caller's
\* concurrent future, is scheduled.
SubmitFinish(c) ==
    /\ Runs(HSubmit(c))
    /\ \/ spc[c] = "task" /\ scancel[c]
       \/ spc[c] = "await"
    /\ spc' = [spc EXCEPT ![c] =
                  IF scancel[c] \/ ~IsResult(future[sjob[c]]) THEN "cancelled"
                  ELSE "done"]
    /\ scancel' = [scancel EXCEPT ![c] = FALSE]
    /\ ready' = Append(Tail(ready), HChain(c))
    /\ LoopAdvance(stop_set)
    /\ UNCHANGED <<stop_set, workervars, jobvars, sjob, callervars, stopcall>>
    /\ UNCHANGED <<apivars, late>>

\* futures._chain_future: the caller's concurrent future is completed.
Chain(c) ==
    /\ Runs(HChain(c))
    /\ cfut' = [cfut EXCEPT ![c] =
                  IF spc[c] = "cancelled" THEN FutCancelled ELSE future[sjob[c]]]
    /\ spc' = [spc EXCEPT ![c] = "idle"]
    /\ sjob' = [sjob EXCEPT ![c] = 0]
    /\ ready' = Tail(ready)
    /\ LoopAdvance(stop_set)
    /\ UNCHANGED <<stop_set, workervars, jobvars, scancel, cpc, cpath, ret,
                   ncalls, last_jt, stopcall>>
    /\ UNCHANGED <<apivars, late>>

\* ------------------------------------------------------- _stop
\* Orderings of a finite set (asyncio.all_tasks returns a set).
Orders(S) ==
    { f \in [1..Cardinality(S) -> S] : \A i, k \in DOMAIN f : f[i] = f[k] => i = k }

\* Tasks whose awaited future is still pending: task.cancel() cancels that
\* future, which schedules the task's wakeup.
CancelWakes ==
    (IF Awaiting(wpc) /\ wio = IoPending THEN {HWorker} ELSE {})
    \cup { HSubmit(c) : c \in { d \in Callers :
                                  spc[d] = "await" /\ ~Done(future[sjob[d]]) } }

\* The _stop callback: self._stop.set(); every task of the loop is
\* cancelled; self._loop.stop().
StopCb ==
    /\ Runs(HStop)
    /\ stop_set' = TRUE
    /\ \E order \in Orders(CancelWakes) : ready' = Tail(ready) \o order
    /\ wio' = IF Awaiting(wpc) /\ wio = IoPending THEN IoCancelled ELSE wio
    /\ wcancel' = (wpc = "start" \/ (Awaiting(wpc) /\ wio # IoPending))
    /\ future' = [j \in JobIds |->
                    IF \E c \in Callers : spc[c] = "await" /\ sjob[c] = j
                                           /\ ~Done(future[j])
                    THEN FutCancelled ELSE future[j]]
    /\ scancel' = [c \in Callers |->
                    \/ spc[c] = "task"
                    \/ spc[c] = "await" /\ Done(future[sjob[c]])]
    /\ LoopAdvance(TRUE)
    /\ UNCHANGED <<connected, wpc, wjob, wexc, sessions, job_queue, njobs,
                   jt_path, sent, spc, sjob, callervars, stopcall>>
    /\ UNCHANGED <<apivars, late>>

\* ------------------------------------------------------- HTTP handlers
\* A handler is taken as one step: what it decides depends on LAST_JT and
\* the directory as they are when the request arrives.
\* os.path.isfile(path) at this moment.
OnDisk(p) == p \in disk

\* run_cmd(args) of server srv ends with return code 0 (ok) or not.
RunCmd(srv, ok) ==
    /\ ncmds[srv] < MaxCmds
    /\ ncmds' = [ncmds EXCEPT ![srv] = @ + 1]
    /\ nok' = [nok EXCEPT ![srv] = IF ok THEN @ + 1 ELSE @]

\* Variant: LAST_JT is assigned before the command's outcome is known.
ApiPlayJtSetFirst(srv, name, ok) ==
    /\ IF Strip(name) = <<>>
       THEN /\ resp' = Response(srv, 400, "Missing 'name'")
            /\ UNCHANGED <<LAST_JT, ncmds, nok>>
       ELSE IF ~OnDisk(JtPath(Strip(name)))
       THEN /\ resp' = Response(srv, 404, "JT file not found")
            /\ UNCHANGED <<LAST_JT, ncmds, nok>>
       ELSE /\ RunCmd(srv, ok)
            /\ LAST_JT' = [LAST_JT EXCEPT ![srv] = JtPath(Strip(name))]
            /\ resp' = Response(srv, IF ok THEN 200 ELSE 500, "")
    /\ UNCHANGED <<managervars, disk>>

\* POST /jt of either server: LAST_JT is set when the command succeeded.
ApiPlayJt(srv, name, ok) ==
    /\ IF Strip(name) = <<>>
       THEN /\ resp' = Response(srv, 400, "Missing 'name'")
            /\ UNCHANGED <<LAST_JT, ncmds, nok>>
       ELSE IF ~OnDisk(JtPath(Strip(name)))
       THEN /\ resp' = Response(srv, 404, "JT file not found")
            /\ UNCHANGED <<LAST_JT, ncmds, nok>>
       ELSE /\ RunCmd(srv, ok)
            /\ LAST_JT' = IF ok THEN [LAST_JT EXCEPT ![srv] = JtPath(Strip(name))]
                          ELSE LAST_JT
            /\ resp' = Response(srv, IF ok THEN 200 ELSE 500, "")
    /\ UNCHANGED <<managervars, disk>>

\* POST /off: sign_api plays blank.jt (which must exist), sign_jt_server
\* sends a black text frame; LAST_JT is left alone by both.
ApiSignOff(srv, ok) ==
    /\ IF srv = "sign_api" /\ ~OnDisk(JtPath(<<"blank">>))
       THEN /\ resp' = Response(srv, 500, "Missing blank.jt")
            /\ UNCHANGED <<ncmds, nok>>
       ELSE /\ RunCmd(srv, ok)
            /\ resp' = Response(srv, IF ok THEN 200 ELSE 500, "")
    /\ UNCHANGED <<managervars, LAST_JT, disk>>

\* POST /on: replay LAST_JT. sign_api answers 400 when LAST_JT is unset and
\* 404 when its file is gone; sign_jt_server answers 400 in both cases.
ApiSignOn(srv, ok) ==
    /\ IF LAST_JT[srv] = NoPath
       THEN /\ resp' = Response(srv, 400,
                                IF srv = "sign_api"
                                THEN "No last JT animation to resume yet."
                                ELSE "No last JT animation")
            /\ UNCHANGED <<ncmds, nok>>
       ELSE IF ~OnDisk(LAST_JT[srv])
       THEN /\ resp' = IF srv = "sign_api"
                       THEN Response(srv, 404, "Last JT file not found")
                       ELSE Response(srv, 400, "No last JT animation")
            /\ UNCHANGED <<ncmds, nok>>
       ELSE /\ RunCmd(srv, ok)
            /\ resp' = Response(srv, IF ok THEN 200 ELSE 500, "")
    /\ UNCHANGED <<managervars, LAST_JT, disk>>

\* A .jt file is removed from the animations directory.
RemoveFile(f) ==
    /\ f \in disk
    /\ disk' = disk \ {f}
    /\ UNCHANGED <<managervars, LAST_JT, resp, ncmds, nok>>

\* ------------------------------------------------------- specification
Next ==
    \/ Start
    \/ Stop
    \/ StopReturn
    \/ LoopClose
    \/ \E c \in Callers, name \in Names : PlayJt(c, name)
    \/ \E c \in Callers : PlayJtReturn(c)
    \/ RunWorkerCoro
    \/ WorkerStep
    \/ ConnectOk
    \/ \E e \in Faults : ConnectFail(e)
    \/ SendOk
    \/ \E e \in Faults : SendFail(e)
    \/ AexitDone
    \/ TimerFire
    \/ \E c \in Callers : RunCoro(c)
    \/ \E c \in Callers : SubmitEnqueue(c)
    \/ \E c \in Callers : SubmitFinish(c)
    \/ \E c \in Callers : Chain(c)
    \/ StopCb

Spec == Init /\ [][Next]_vars

\* The system while stop() is never called.
NextLive ==
    \/ Start
    \/ \E c \in Callers, name \in Names : PlayJt(c, name)
    \/ \E c \in Callers : PlayJtReturn(c)
    \/ RunWorkerCoro
    \/ WorkerStep
    \/ ConnectOk
    \/ \E e \in Faults : ConnectFail(e)
    \/ SendOk
    \/ \E e \in Faults : SendFail(e)
    \/ AexitDone
    \/ TimerFire
    \/ \E c \in Callers : RunCoro(c)
    \/ \E c \in Callers : SubmitEnqueue(c)
    \/ \E c \in Callers : SubmitFinish(c)
    \/ \E c \in Callers : Chain(c)

\* The running loop runs the handle at the head of its ready queue.
RunsHandle ==
    \/ RunWorkerCoro
    \/ WorkerStep
    \/ \E c \in Callers : RunCoro(c)
    \/ \E c \in Callers : SubmitEnqueue(c)
    \/ \E c \in Callers : SubmitFinish(c)
    \/ \E c \in Callers : Chain(c)

\* The loop keeps running its ready handles; send_command, __aexit__ and
\* the backoff timer end; an open-session attempt ends, and of the
\* repeated attempts one succeeds.
Fairness ==
    /\ WF_vars(RunsHandle)
    /\ WF_vars(SendOk \/ \E e \in Faults : SendFail(e))
    /\ WF_vars(AexitDone)
    /\ WF_vars(TimerFire)
    /\ SF_vars(ConnectOk)

LiveSpec == Init /\ [][NextLive]_vars /\ Fairness

\* The fault the transport raises in the shutdown scenarios.
StopFaults == { [cls |-> "BleakError", msg |-> "disconnected"] }

\* start(), calls play_jt("heart") from the caller threads, and stop().
NextStop ==
    \/ Start
    \/ Stop
    \/ StopReturn
    \/ LoopClose
    \/ \E c \in Callers : PlayJt(c, <<"heart">>)
    \/ \E c \in Callers : PlayJtReturn(c)
    \/ RunWorkerCoro
    \/ WorkerStep
    \/ ConnectOk
    \/ \E e \in StopFaults : ConnectFail(e)
    \/ SendOk
    \/ \E e \in StopFaults : SendFail(e)
    \/ AexitDone
    \/ TimerFire
    \/ \E c \in Callers : RunCoro(c)
    \/ \E c \in Callers : SubmitEnqueue(c)
    \/ \E c \in Callers : SubmitFinish(c)
    \/ \E c \in Callers : Chain(c)
    \/ StopCb

\* The running loop runs its ready handles, the _stop callback among
\* them; every awaited transport operation and the backoff timer end; the
\* loop thread closes the loop once run_forever has returned; join
\* returns; a caller whose future is done goes on.
FairnessStop ==
    /\ WF_vars(RunsHandle \/ StopCb)
    /\ WF_vars(ConnectOk \/ \E e \in StopFaults : ConnectFail(e))
    /\ WF_vars(SendOk \/ \E e \in StopFaults : SendFail(e))
    /\ WF_vars(AexitDone)
    /\ WF_vars(TimerFire)
    /\ WF_vars(LoopClose)
    /\ WF_vars(StopReturn)
    /\ \A c \in Callers : WF_vars(PlayJtReturn(c))

StopLiveSpec == Init /\ [][NextStop]_vars /\ FairnessStop

\* The names callers pass when two payloads are in use.
FacadeNames == Names \cup { <<"blank">> }

\* The public calls play_jt(name) and off() made from several threads, with
\* both payload files in use, while stop() is never called.
NextFacade ==
    \/ Start
    \/ \E c \in Callers, name \in FacadeNames : PlayJt(c, name)
    \/ \E c \in Callers : Off(c)
    \/ \E c \in Callers : PlayJtReturn(c)
    \/ RunWorkerCoro
    \/ WorkerStep
    \/ ConnectOk
    \/ \E e \in Faults : ConnectFail(e)
    \/ SendOk
    \/ \E e \in Faults : SendFail(e)
    \/ AexitDone
    \/ TimerFire
    \/ \E c \in Callers : RunCoro(c)
    \/ \E c \in Callers : SubmitEnqueue(c)
    \/ \E c \in Callers : SubmitFinish(c)
    \/ \E c \in Callers : Chain(c)

FacadeSpec == Init /\ [][NextFacade]_vars

\* The names HTTP clients send in the body of POST /jt.
ApiNames == { <<>>, <<"heart">>, <<" ", "blank">>, <<"ghost">> }

\* The requests served by sign_api.py and sign_jt_server.py.
NextApi ==
    \/ \E srv \in Servers, name \in ApiNames, ok \in BOOLEAN : ApiPlayJt(srv, name, ok)
    \/ \E srv \in Servers, ok \in BOOLEAN : ApiSignOff(srv, ok)
    \/ \E srv \in Servers, ok \in BOOLEAN : ApiSignOn(srv, ok)
    \/ \E f \in Files : RemoveFile(f)

ApiSpec == Init /\ [][NextApi]_vars

TypeOK ==
    /\ loop \in {"new", "running", "stopped", "closed"}
    /\ batch \in 0..(Len(ready) + 1)
    /\ njobs \in 0..MaxJobs
    /\ ncalls \in 0..MaxJobs
    /\ sessions \in 0..1
    /\ wjob \in 0..MaxJobs
    /\ \A i \in 1..Len(job_queue) : job_queue[i] \in 1..njobs
    /\ wpc \in {"none", "start", "aenter", "get", "send", "aexit", "sleep",
                "done", "cancelled"}

\* ------------------------------------------------------- history helpers
Range(f) == { f[i] : i \in DOMAIN f }

\* Job j has been handed to client.send_command.
Dispatched(j) == j \in Range(sent)

\* The job most recently handed to client.send_command.
LastSent == sent[Len(sent)]

\* The supervisor holds an exception that _process_job raised.
DispatchFailed == wpc = "aexit" /\ IsException(wexc)

\* ------------------------------------------------------- C1
\* C1: jobs are dispatched in enqueue order (job ids are given in enqueue
\* order), and when a job has been dispatched every job enqueued before it
\* has been dispatched earlier and already holds its Result, whatever
\* connect failures, send failures and reconnects happened in between.
C1_FifoDispatch ==
    \A a, b \in 1..njobs :
        (a < b /\ Dispatched(b)) =>
            /\ IsResult(future[a])
            /\ \E i, k \in 1..Len(sent) : i < k /\ sent[i] = a /\ sent[k] = b

\* A send failed, the session was lost, and a later job was dispatched.
C1_Witness ==
    /\ Len(sent) >= 2
    /\ IsResult(future[sent[1]])
    /\ ~future[sent[1]].ok

\* ------------------------------------------------------- C2
\* C2: at most one dispatched job is without a result, it is the job the
\* worker holds inside send_command, and every job dispatched before the
\* latest one has its result slot resolved.
C2_SingleInFlight ==
    /\ Cardinality({ j \in JobIds : Dispatched(j) /\ future[j].st = "pending" }) <= 1
    /\ \A j \in JobIds :
          (Dispatched(j) /\ future[j].st = "pending") => (wpc = "send" /\ wjob = j)
    /\ \A k \in 1..(Len(sent) - 1) : IsResult(future[sent[k]])

\* A job is in flight while another one waits in the queue.
C2_Witness ==
    /\ wpc = "send"
    /\ future[wjob].st = "pending"
    /\ job_queue # <<>>

\* ------------------------------------------------------- C3
\* C3: with stop() never called and open attempts succeeding in the end,
\* every job that was enqueued gets a Result.
C3_EveryJobResolved ==
    \A j \in JobIds : (future[j].st = "pending") ~> IsResult(future[j])

\* Every job has its Result, and the send of one of them had failed.
C3_Witness ==
    /\ njobs = MaxJobs
    /\ \A j \in JobIds : IsResult(future[j])
    /\ \E j \in JobIds : ~future[j].ok

\* ------------------------------------------------------- C4
\* C4: once a job's future is done, no step changes it.
C4_WriteOnce ==
    [][\A j \in JobIds : Done(future[j]) => future'[j] = future[j]]_vars

\* One job resolved on the failure path and one on the success path.
C4_Witness ==
    /\ \E j \in JobIds : IsResult(future[j]) /\ ~future[j].ok
    /\ \E j \in JobIds : IsResult(future[j]) /\ future[j].ok

\* ------------------------------------------------------- C5
\* C5: when send_command raised for a job, whatever the class of the
\* fault, the job holds a Result with ok = false and a non-empty error,
\* and the supervisor has left the session.
C5_FailedSendHasMessage ==
    DispatchFailed =>
        /\ IsResult(future[LastSent])
        /\ ~future[LastSent].ok
        /\ future[LastSent].error # ""
        /\ ~connected

\* ------------------------------------------------------- C6
\* Job j is created and has not been handed to send_command.
Waiting(j) == future[j].st = "pending" /\ ~Dispatched(j)

\* C6: a job that has not been dispatched is in the queue, and when the
\* send of job j has failed while job j+1 waits, job j+1 is dispatched
\* later (stop() never called, a later open attempt succeeds).
C6_NextJobSurvivesFailure ==
    /\ [](\A j \in JobIds : Waiting(j) => j \in Range(job_queue))
    /\ \A j \in 1..(MaxJobs - 1) :
          (IsResult(future[j]) /\ ~future[j].ok /\ Waiting(j + 1))
              ~> Dispatched(j + 1)

\* The send of job j failed and job j+1 was sent with success afterwards.
C6_Witness ==
    \E j \in 1..(MaxJobs - 1) :
        /\ IsResult(future[j]) /\ ~future[j].ok
        /\ IsResult(future[j + 1]) /\ future[j + 1].ok

\* ------------------------------------------------------- C7
\* C7: a fault raised in the calling thread is a validation fault, unless
\* the loop had been closed; what play_jt returns is the Result of a job.
C7_NoTransportFaultRaised ==
    /\ (ret.t = "raised" /\ ret.fault \notin {"ValueError", "FileNotFoundError"})
          => loop = "closed"
    /\ ret.t = "returned" =>
          /\ IsResult(ret.val)
          /\ \E j \in 1..njobs : future[j] = ret.val

\* play_jt returned the failed Result of a job whose send raised.
C7_Witness ==
    /\ ret.t = "returned"
    /\ ~ret.val.ok
    /\ loop = "running"

\* ------------------------------------------------------- C8
\* C8: when an exception raised by a dispatch has reached the supervisor,
\* the job holds a failed Result; and while the supervisor closes the
\* session, backs off or reconnects (no stop requested), no dispatched job
\* is without a Result.
C8_ResolvedBeforeReconnect ==
    /\ DispatchFailed => (IsResult(future[LastSent]) /\ ~future[LastSent].ok)
    /\ (wpc \in {"aexit", "sleep", "aenter"} /\ ~stop_set) =>
          \A j \in JobIds : Dispatched(j) => IsResult(future[j])

\* The exception of a failed dispatch is in the supervisor's hands and the
\* session is not closed yet.
C8_Witness ==
    /\ DispatchFailed
    /\ wio = IoPending
    /\ sessions = 1

\* ------------------------------------------------------- C9
\* A failed open, a lost session, the end of the teardown, the end of the
\* backoff: the worker steps that happen without an open session.
OutageStep ==
    \/ wpc = "aenter" /\ wpc' \in {"sleep", "done"}
    \/ wpc \in {"send", "get"} /\ wpc' = "aexit"
    \/ wpc = "aexit" /\ wpc' \in {"sleep", "done"}
    \/ wpc = "sleep" /\ wpc' \in {"aenter", "cancelled"}

\* The queue holds exactly the jobs created and not yet dispatched, oldest
\* first.
QueueIntact ==
    job_queue = [i \in 1..(njobs - Len(sent)) |-> Len(sent) + i]

\* C9: the steps of an outage leave the queue as it is, and the queue
\* always holds every undispatched job in enqueue order.
C9_QueueKeptAcrossOutage ==
    /\ [][OutageStep => job_queue' = job_queue]_vars
    /\ []QueueIntact

\* A job waits in the queue during the backoff.
C9_Witness ==
    /\ wpc = "sleep"
    /\ job_queue # <<>>
    /\ ~stop_set

\* ------------------------------------------------------- C10
\* C10: no job is handed to send_command twice, a dispatched job is not in
\* the queue again, and a job with a Result was dispatched.
C10_SentAtMostOnce ==
    /\ \A i, k \in 1..Len(sent) : sent[i] = sent[k] => i = k
    /\ \A j \in JobIds : Dispatched(j) => j \notin Range(job_queue)
    /\ \A j \in JobIds : IsResult(future[j]) => Dispatched(j)

\* A job's send failed and the supervisor is connected again.
C10_Witness ==
    /\ \E j \in JobIds : IsResult(future[j]) /\ ~future[j].ok
    /\ connected
    /\ wpc \in {"get", "send"}

\* ------------------------------------------------------- C11
\* The Client context is entered and its body runs: the session is open.
SessionOpen == connected /\ sessions = 1 /\ wpc \in {"get", "send"}

\* A step hands a job to send_command.
DispatchStep == sent' # sent

\* A step gives a job its Result.
ResolveStep == \E j \in JobIds : ~IsResult(future[j]) /\ IsResult(future'[j])

\* C11: a job leaves the queue for send_command only in a step taken with
\* the session open, a job gets its Result only then, and a job is inside
\* send_command only while the session is open; so while no open attempt
\* has succeeded (disconnected, connecting, backoff) every job stays
\* queued and unresolved.
C11_DispatchOnlyWhileOpen ==
    /\ [][DispatchStep => (SessionOpen \/ (wpc = "aenter" /\ wio = IoOk))]_vars
    /\ [][DispatchStep => (connected' /\ sessions' = 1)]_vars
    /\ [][ResolveStep => (SessionOpen /\ wpc = "send")]_vars
    /\ [](wpc = "send" => (connected /\ sessions = 1))
    /\ [](wpc \in {"none", "start", "aenter", "sleep"} =>
            \A j \in JobIds : Dispatched(j) => IsResult(future[j]))

\* A job was enqueued, the open attempt failed, and the job waits
\* unresolved during the backoff: nothing has been dispatched.
C11_Witness ==
    /\ wpc = "sleep"
    /\ sessions = 0
    /\ sent = <<>>
    /\ \E j \in JobIds : future[j].st = "pending" /\ j \in Range(job_queue)

\* ------------------------------------------------------- C12
\* The supervisor begins an open attempt: Client.__aenter__ is called.
OpenAttemptStep == wpc # "aenter" /\ wpc' = "aenter"

\* C12: never more than one session is open; an open attempt begins, and
\* is pending, only with no session open; and the backoff that precedes
\* the next attempt is entered only after the teardown of the session.
C12_OneSession ==
    /\ [](sessions \in 0..1)
    /\ [][OpenAttemptStep => (sessions = 0 /\ sessions' = 0)]_vars
    /\ []((wpc = "aenter" /\ wio = IoPending) => sessions = 0)
    /\ [](wpc = "sleep" => sessions = 0)

\* A session was lost on a failed send and torn down, and the next
\* attempt has opened the second session.
C12_Witness ==
    /\ sessions = 1
    /\ wpc = "get"
    /\ wio = IoPending
    /\ \E j \in JobIds : IsResult(future[j]) /\ ~future[j].ok

\* ------------------------------------------------------- C13
\* The name is empty or consists of whitespace only.
BlankName(name) == \A i \in 1..Len(name) : IsSpace(name[i])

\* The name is not blank and anim_dir has no file <name>.jt.
MissingPayload(name) ==
    /\ ~BlankName(name)
    /\ \A f \in Files : f # <<"anim_dir">> \o Strip(name) \o <<".jt">>

\* C13: a play_jt call with a blank name raises ValueError, one with a
\* missing payload file raises FileNotFoundError; the call leaves the loop,
\* the queue, the jobs, the worker, the tasks, the callers and last_jt as
\* they were: no Job is created.
C13_InvalidCallChangesNothing ==
    [][\A c \in Callers, name \in Names :
          (PlayJt(c, name) /\ (BlankName(name) \/ MissingPayload(name))) =>
              /\ ret' = Raised(IF BlankName(name) THEN "ValueError"
                               ELSE "FileNotFoundError")
              /\ UNCHANGED <<loopvars, workervars, jobvars, taskvars, cpc,
                             cpath, cfut, ncalls, last_jt, stopcall>>]_vars

\* A call was refused after another call had succeeded, while a second
\* job is queued or in flight.
C13_Witness ==
    /\ ret.t = "raised"
    /\ ret.fault \in {"ValueError", "FileNotFoundError"}
    /\ last_jt # NoPath
    /\ \E j \in JobIds : future[j].st = "pending"

\* ------------------------------------------------------- C14
\* The jobs whose Result has ok = true.
OkJobs == { j \in 1..njobs : IsResult(future[j]) /\ future[j].ok }

\* The payload of the job that succeeded last (jobs are processed one
\* after the other in the order of their ids), NoPath if none did.
LatestOkPath ==
    IF OkJobs = {} THEN NoPath
    ELSE jt_path[CHOOSE j \in OkJobs : \A k \in OkJobs : k <= j]

\* C14: whenever every play_jt call has returned, last_jt is the payload
\* of the job that succeeded last (unset if none has), however the calls
\* of the caller threads interleave.
C14_LastJtIsLatestOk ==
    (\A c \in Callers : cpc[c] = "idle") => last_jt = LatestOkPath

\* ------------------------------------------------------- C15
\* anim_dir / "blank.jt"
BlankPath == <<"anim_dir", "blank", ".jt">>

\* C15: a step is a call off() of a caller exactly when it is that
\* caller's call play_jt("blank") (same guard, same successor state, hence
\* the same Result and the same last_jt afterwards), and the call hands
\* one _submit_job coroutine for anim_dir/blank.jt to the loop and blocks.
C15_OffIsPlayBlank ==
    [][\A c \in Callers :
          /\ Off(c) <=> PlayJt(c, <<"blank">>)
          /\ Off(c) =>
                /\ cpath'[c] = BlankPath
                /\ cpc'[c] = "blocked"
                /\ ready' = Append(ready, HRunCoro(c))
                /\ last_jt' = last_jt]_vars

\* The blank frame was played with ok = true and is recorded as last_jt.
C15_Witness ==
    /\ ret.t = "returned"
    /\ ret.val.ok
    /\ ret.val.jt_path = BlankPath
    /\ last_jt = BlankPath

\* ------------------------------------------------------- C16
\* No command of server srv has succeeded so far.
NothingSucceeded(srv) == nok[srv] = 0

\* C16: POST /on of a server none of whose commands has succeeded yet is
\* answered with status 400 and the "no last JT animation" error, runs no
\* command, and leaves LAST_JT unset.
C16_ResumeWithoutSuccess ==
    [][\A srv \in Servers, ok \in BOOLEAN :
          (NothingSucceeded(srv) /\ ApiSignOn(srv, ok)) =>
              /\ resp'.srv = srv
              /\ resp'.status = 400
              /\ resp'.detail \in {"No last JT animation to resume yet.",
                                   "No last JT animation"}
              /\ ncmds'[srv] = ncmds[srv]
              /\ LAST_JT[srv] = NoPath
              /\ LAST_JT'[srv] = NoPath]_vars

\* POST /on was refused after a POST /jt of that server had run its
\* command and the command had failed.
C16_Witness ==
    \E srv \in Servers :
        /\ resp = Response(srv, 400, IF srv = "sign_api"
                                     THEN "No last JT animation to resume yet."
                                     ELSE "No last JT animation")
        /\ ncmds[srv] > 0
        /\ nok[srv] = 0
        /\ OnDisk(JtPath(<<"heart">>))

\* ------------------------------------------------------- C17
\* C17: once stop() has returned (the thread has ended or the join has
\* timed out), no step hands a job to send_command.
C17_NoDispatchAfterStop ==
    [][stopcall = "returned" => ~DispatchStep]_vars

\* ------------------------------------------------------- C18
\* C18: a play_jt call that began after stop() had returned and did not
\* raise at once ends later, the calling thread does not stay blocked.
C18_LateCallEnds ==
    \A c \in Callers : (c \in late) ~> (cpc[c] = "idle")

\* ------------------------------------------------------- C19
\* C19: after stop() has been called the system reaches its end (the loop
\* closed) with no transport session left open, and once the stop flag is
\* set the supervisor begins no open attempt.
C19_StopClosesSession ==
    /\ (stopcall # "none") ~> (loop = "closed" /\ sessions = 0)
    /\ [][stop_set => ~OpenAttemptStep]_vars

\* ------------------------------------------------------- C20
\* stop() has been called while job j is inside client.send_command.
InFlightAtStop(j) ==
    /\ stopcall # "none"
    /\ wpc = "send"
    /\ wjob = j
    /\ ~Done(future[j])

\* C20: a job that is inside send_command when stop() has been called
\* gets the Result of its send (ok, or failed with the fault raised).
C20_InFlightSendCompletes ==
    \A j \in JobIds : InFlightAtStop(j) ~> IsResult(future[j])

\* ------------------------------------------------------- C21
\* The worker task resumes from a failed Client.__aenter__.
OpenFailedStep == wpc = "aenter" /\ wio.st = "raised" /\ wio' # wio

\* The worker task resumes from Client.__aexit__: the session is over.
SessionEndStep == wpc = "aexit" /\ wpc' # "aexit"

\* The backoff wait is over and the worker task goes on.
BackoffEndStep == wpc = "sleep" /\ wpc' # "sleep"

\* C21: with stop() never called, a failed open attempt and the end of a
\* lost session lead straight into the backoff wait, the backoff is left
\* only for the next open attempt, an open attempt begins only at the start
\* and out of a backoff, the supervisor never ends, and every end of a
\* session, failed attempt and backoff is followed by a new attempt.
C21_BackoffThenRetry ==
    /\ [][OpenFailedStep => wpc' = "sleep"]_vars
    /\ [][SessionEndStep => wpc' = "sleep"]_vars
    /\ [][BackoffEndStep => wpc' = "aenter"]_vars
    /\ [][OpenAttemptStep => wpc \in {"start", "sleep"}]_vars
    /\ [](wpc \notin {"done", "cancelled"})
    /\ (wpc \in {"aexit", "sleep"}) ~> (wpc = "aenter" /\ wio = IoPending)
    /\ (wpc = "aenter" /\ wio.st = "raised") ~> (wpc = "aenter" /\ wio = IoPending)

\* After a session was lost on a failed send and the backoff is over, the
\* next open attempt is pending while a job waits in the queue.
C21_Witness ==
    /\ wpc = "aenter"
    /\ wio = IoPending
    /\ sessions = 0
    /\ job_queue # <<>>
    /\ \E j \in JobIds : IsResult(future[j]) /\ ~future[j].ok

\* ------------------------------------------------------- C22
\* stop() has been called, its callback has not run yet, and caller c is
\* blocked in fut.result() with its job queued or in flight. (The job
\* exists, so the call was handed to the loop before the _stop callback
\* was: the caller was blocked when stop() was invoked.)
BlockedAtStop(c) ==
    /\ stopcall # "none"
    /\ ~stop_set
    /\ cpc[c] = "blocked"
    /\ spc[c] = "await"
    /\ ~Done(future[sjob[c]])

\* C22: a caller blocked in play_jt when stop() is invoked gets out of
\* play_jt later, with a Result or a raised fault.
C22_BlockedCallerReleased ==
    \A c \in Callers : BlockedAtStop(c) ~> (cpc[c] = "idle")

====
